---------------------------- MODULE Spec2Model ----------------------------
(***************************************************************************)
(* Model of the two drift leashes of vireon_trp:                           *)
(*   - KLLeash        (src/src/vireon_trp/leash.py)                        *)
(*   - VireonQLLeash  (src/src/vireon_trp/quantum/kl_leash.py)             *)
(* Both are pure per call; the state is the constructed objects and the    *)
(* record of the last call (its arguments and what it returned or raised). *)
(* The calls are pure, so a behaviour constructs an object and makes one   *)
(* call on it: every (configuration, arguments) pair is one behaviour.     *)
(*                                                                         *)
(* Real numbers are exact rationals <<n, d>> with d > 0 in lowest terms.   *)
(* A Python exception is the string naming its class.                      *)
(***************************************************************************)
EXTENDS Integers, Sequences, FiniteSets

VARIABLES leash, cfg, qleash, last

vars == <<leash, cfg, qleash, last>>

(***************************************************************************)
(* Bounds of the model.                                                    *)
(***************************************************************************)
MaxLen == 4      \* longest divergence series given to zone
MaxKL == 2       \* largest point of a divergence series
MaxVecLen == 3   \* longest proxy vector given to kl
MaxCells == 4    \* most entries (batch * dim) of a hidden-state batch

Thresholds == {0, 1, 2}     \* yellow_thr, red_thr given to zone
Days == {0, 1, 2, 3}        \* yellow_days, red_days given to KLLeash
Proxies == {0, 1, 2}        \* entries of the proxy vectors given to kl

(***************************************************************************)
(* Exact rational arithmetic.                                              *)
(***************************************************************************)
Abs(x) == IF x < 0 THEN -x ELSE x
Sgn(i) == IF i > 0 THEN 1 ELSE IF i < 0 THEN -1 ELSE 0

RECURSIVE GCD(_, _)
GCD(a, b) == IF b = 0 THEN a ELSE GCD(b, a % b)

Norm(n, d) ==
    LET g == GCD(Abs(n), Abs(d))
        s == IF d < 0 THEN -1 ELSE 1
    IN <<(s * n) \div g, (s * d) \div g>>

Rat(i) == <<i, 1>>
RAdd(x, y) ==
    LET g == GCD(x[2], y[2])
    IN Norm(x[1] * (y[2] \div g) + y[1] * (x[2] \div g), (x[2] \div g) * y[2])
RNeg(x) == <<-x[1], x[2]>>
RSub(x, y) == RAdd(x, RNeg(y))
RMul(x, y) ==
    LET g1 == GCD(Abs(x[1]), y[2])
        g2 == GCD(Abs(y[1]), x[2])
    IN Norm((x[1] \div g1) * (y[1] \div g2), (x[2] \div g2) * (y[2] \div g1))
RInv(y) == IF y[1] < 0 THEN <<-y[2], -y[1]>> ELSE <<y[2], y[1]>>      \* y # 0
RDiv(x, y) == RMul(x, RInv(y))
RLt(x, y) ==
    LET g == GCD(x[2], y[2])
    IN x[1] * (y[2] \div g) < y[1] * (x[2] \div g)
RLe(x, y) == ~RLt(y, x)
RMax(x, y) == IF RLt(x, y) THEN y ELSE x
RIsZero(x) == x[1] = 0

RECURSIVE RSum(_)
RSum(s) == IF s = <<>> THEN Rat(0) ELSE RAdd(s[1], RSum(Tail(s)))

RECURSIVE ISum(_)
ISum(s) == IF s = <<>> THEN 0 ELSE s[1] + ISum(Tail(s))

SeqsUpTo(S, n) == UNION {[1..k -> S] : k \in 0..n}

(***************************************************************************)
(* KLLeash                                                                 *)
(***************************************************************************)
NoLeash == [made |-> FALSE, eps |-> Rat(0), yellow_days |-> 0, red_days |-> 0]
NoCall == [op |-> "none"]

\* the floor eps of KLLeash.__init__, 1e-9 in the source, as 1 / EpsDen
EpsDen == 10

Zones == {"GREEN", "YELLOW", "RED"}

\* numpy.ones(n, dtype=int): raises ValueError for a negative length
np_ones(n) ==
    IF n < 0 THEN [raised |-> TRUE, out |-> <<>>]
    ELSE [raised |-> FALSE, out |-> [i \in 1..n |-> 1]]

\* numpy.convolve(a, v, mode="valid"): the longer operand slides over the
\* reversed shorter one; an empty operand raises ValueError
np_convolve_valid(a0, v0) ==
    LET a == IF Len(v0) > Len(a0) THEN v0 ELSE a0
        v == IF Len(v0) > Len(a0) THEN a0 ELSE v0
        n == Len(a)
        m == Len(v)
    IN IF n = 0 \/ m = 0 THEN [raised |-> TRUE, out |-> <<>>]
       ELSE [raised |-> FALSE,
             out |-> [k \in 1..(n - m + 1) |->
                        ISum([j \in 1..m |-> a[k + j - 1] * v[m + 1 - j]])]]

\* the indicator with a strict comparison
indicator_strict(ks, thr) == [i \in 1..Len(ks) |-> IF ks[i] > thr THEN 1 ELSE 0]

\* (ks >= thr).astype(int)
indicator(ks, thr) == [i \in 1..Len(ks) |-> IF ks[i] >= thr THEN 1 ELSE 0]

np_any_ge(run, n) == \E i \in 1..Len(run) : run[i] >= n

\* zone with the yellow run tested before the red run
zone_yellow_first(self, kl_series, yellow_thr, red_thr) ==
    LET ks == kl_series
        yones == np_ones(self.yellow_days)
        rones == np_ones(self.red_days)
        yellow_run == np_convolve_valid(indicator(ks, yellow_thr), yones.out)
        red_run == np_convolve_valid(indicator(ks, red_thr), rones.out)
    IN IF np_any_ge(ks, 2 * red_thr) THEN "RED"
       ELSE IF yones.raised \/ yellow_run.raised THEN "ValueError"
       ELSE IF rones.raised \/ red_run.raised THEN "ValueError"
       ELSE IF np_any_ge(yellow_run.out, self.yellow_days) THEN "YELLOW"
       ELSE IF np_any_ge(red_run.out, self.red_days) THEN "RED"
       ELSE "GREEN"

zone(self, kl_series, yellow_thr, red_thr) ==
    LET ks == kl_series
        yones == np_ones(self.yellow_days)
        rones == np_ones(self.red_days)
        yellow_run == np_convolve_valid(indicator(ks, yellow_thr), yones.out)
        red_run == np_convolve_valid(indicator(ks, red_thr), rones.out)
    IN IF np_any_ge(ks, 2 * red_thr) THEN "RED"
       ELSE IF yones.raised \/ yellow_run.raised THEN "ValueError"
       ELSE IF rones.raised \/ red_run.raised THEN "ValueError"
       ELSE IF np_any_ge(red_run.out, self.red_days) THEN "RED"
       ELSE IF np_any_ge(yellow_run.out, self.yellow_days) THEN "YELLOW"
       ELSE "GREEN"

\* v = clip(v, eps, None); v / v.sum()
to_dist(self, v) ==
    LET c == [i \in 1..Len(v) |-> RMax(Rat(v[i]), self.eps)]
        s == RSum(c)
    IN [i \in 1..Len(v) |-> RDiv(c[i], s)]

\* numpy broadcasting of two 1-D shapes: -1 when they cannot be broadcast
broadcast_len(n, m) ==
    IF n = m THEN n ELSE IF n = 1 THEN m ELSE IF m = 1 THEN n ELSE -1

bcast(x, i) == IF Len(x) = 1 THEN x[1] ELSE x[i]

\* the sign of np.log(x) for a rational x > 0: that of x - 1
np_log_sign(x) == Sgn(x[1] - x[2])

\* kl with eps added to the denominator of the ratio only
kl_eps_denominator_only(self, S_t, S0) ==
    LET p == to_dist(self, S_t)
        q == to_dist(self, S0)
        n == broadcast_len(Len(p), Len(q))
    IN IF n < 0 THEN [raised |-> "ValueError", terms |-> <<>>]
       ELSE [raised |-> "no",
             terms |-> [i \in 1..n |->
                 <<bcast(p, i),
                   RDiv(bcast(p, i), RAdd(bcast(q, i), self.eps))>>]]

\* kl returns sum_i p_i * log(ratio_i); the model keeps the terms
\* <<p_i, ratio_i>> with ratio_i = (p_i + eps) / (q_i + eps)
kl(self, S_t, S0) ==
    LET p == to_dist(self, S_t)
        q == to_dist(self, S0)
        n == broadcast_len(Len(p), Len(q))
    IN IF n < 0 THEN [raised |-> "ValueError", terms |-> <<>>]
       ELSE [raised |-> "no",
             terms |-> [i \in 1..n |->
                 <<bcast(p, i),
                   RDiv(RAdd(bcast(p, i), self.eps),
                        RAdd(bcast(q, i), self.eps))>>]]

KLLeash_init(yellow_days, red_days) ==
    /\ ~leash.made
    /\ leash' = [made |-> TRUE, eps |-> Norm(1, EpsDen),
                 yellow_days |-> yellow_days, red_days |-> red_days]
    /\ last' = [op |-> "KLLeash"]
    /\ UNCHANGED <<cfg, qleash>>

Zone(ks, yellow_thr, red_thr) ==
    /\ leash.made
    /\ last.op = "KLLeash"
    /\ last' = [op |-> "zone", kl_series |-> ks, yellow_thr |-> yellow_thr,
                red_thr |-> red_thr,
                result |-> zone(leash, ks, yellow_thr, red_thr)]
    /\ UNCHANGED <<leash, cfg, qleash>>

Kl(S_t, S0) ==
    /\ leash.made
    /\ last.op = "KLLeash"
    /\ last' = [op |-> "kl", S_t |-> S_t, S0 |-> S0,
                result |-> kl(leash, S_t, S0)]
    /\ UNCHANGED <<leash, cfg, qleash>>

(***************************************************************************)
(* Numbers a + b * sqrt(r): pairs <<a, b>> of rationals over one radicand  *)
(* r >= 0, the square of the raw damping scale of the call.                *)
(***************************************************************************)
Q(x) == <<x, Rat(0)>>
QAdd(x, y) == <<RAdd(x[1], y[1]), RAdd(x[2], y[2])>>
QSub(x, y) == <<RSub(x[1], y[1]), RSub(x[2], y[2])>>
QMul(x, y, r) ==
    <<RAdd(RMul(x[1], y[1]), RMul(RMul(x[2], y[2]), r)),
      RAdd(RMul(x[1], y[2]), RMul(x[2], y[1]))>>

\* the sign of a + b * sqrt(r)
QSign(x, r) ==
    LET a == x[1]
        b == IF RIsZero(r) THEN Rat(0) ELSE x[2]
        sa == Sgn(a[1])
        sb == Sgn(b[1])
        a2 == RMul(a, a)
        b2r == RMul(RMul(b, b), r)
    IN IF sb = 0 THEN sa
       ELSE IF sa = 0 THEN sb
       ELSE IF sa = sb THEN sa
       ELSE IF RLt(b2r, a2) THEN sa
       ELSE IF RLt(a2, b2r) THEN sb
       ELSE 0

QLt(x, y, r) == QSign(QSub(y, x), r) > 0
QLe(x, y, r) == QSign(QSub(y, x), r) >= 0
QEq(x, y, r) == QSign(QSub(y, x), r) = 0

RECURSIVE QSum(_)
QSum(s) == IF s = <<>> THEN Q(Rat(0)) ELSE QAdd(s[1], QSum(Tail(s)))

(***************************************************************************)
(* VireonQLConfig and VireonQLLeash                                        *)
(* A tensor is its shape and its entries in row-major order.               *)
(***************************************************************************)
NoCfg == [made |-> FALSE]
NoQLeash == [made |-> FALSE]

Entries == {0, 2}           \* entries of the hidden-state tensors
Dims == {1, 2}              \* feature dimensions of the tensors

\* the guard 1e-12 added to kl before the division, as 1 / TinyDen
TinyDen == 1000

\* the values the configuration fields are drawn from
EpsKls == {<<-1, 8>>, <<1, 8>>, <<2, 1>>}
MinScales == {<<1, 8>>, <<1, 2>>}
MaxScales == {<<1, 4>>, <<1, 1>>}
CovRegs == {<<0, 1>>, <<1, 4>>}

None == [isNone |-> TRUE, shape |-> <<>>, data |-> <<>>]
Tensor(shape, data) == [isNone |-> FALSE, shape |-> shape, data |-> data]

ndim(h) == Len(h.shape)

\* entry [i, j] of a [batch, dim] tensor
at(h, i, j) == h.data[(i - 1) * h.shape[2] + j]

\* h.mean(dim=0): one value per feature
mean0(h) ==
    [j \in 1..h.shape[2] |->
        RDiv(Rat(ISum([i \in 1..h.shape[1] |-> at(h, i, j)])), Rat(h.shape[1]))]

\* the covariance trace without the cov_reg floor
estimate_cov_trace_no_floor(c, h) ==
    LET mu == mean0(h)
        var == [j \in 1..h.shape[2] |->
                  RDiv(RSum([i \in 1..h.shape[1] |->
                          RMul(RSub(Rat(at(h, i, j)), mu[j]),
                               RSub(Rat(at(h, i, j)), mu[j]))]),
                       Rat(h.shape[1]))]
    IN RSum(var)

\* _estimate_cov_trace for a [batch, dim] tensor (the caller checks ndim)
estimate_cov_trace(c, h) ==
    LET mu == mean0(h)
        var == [j \in 1..h.shape[2] |->
                  RDiv(RSum([i \in 1..h.shape[1] |->
                          RMul(RSub(Rat(at(h, i, j)), mu[j]),
                               RSub(Rat(at(h, i, j)), mu[j]))]),
                       Rat(h.shape[1]))]
        trace == RSum(var)
    IN RMax(trace, c.cov_reg)

\* (mu_new - mu_old).mean(dim=0)
delta_mean(mu_new, mu_old) ==
    [j \in 1..mu_new.shape[2] |->
        RDiv(Rat(ISum([i \in 1..mu_new.shape[1] |->
                         at(mu_new, i, j) - at(mu_old, i, j)])),
             Rat(mu_new.shape[1]))]

\* _gaussian_kl: [raised, kl]; 1.0 / (sigma2 + cov_reg) divides Python floats
gaussian_kl(c, mu_new, mu_old, trace_cov) ==
    LET delta == delta_mean(mu_new, mu_old)
        d == mu_new.shape[2]
        sigma2 == RDiv(trace_cov, Rat(d))
        den == RAdd(sigma2, c.cov_reg)
        quad == RMul(RSum([j \in 1..d |-> RMul(delta[j], delta[j])]),
                     RDiv(Rat(1), den))
    IN IF mu_new.shape # mu_old.shape THEN [raised |-> "ValueError", kl |-> Rat(0)]
       ELSE IF RIsZero(den) THEN [raised |-> "ZeroDivisionError", kl |-> Rat(0)]
       ELSE [raised |-> "no", kl |-> RMul(<<1, 2>>, quad)]

\* the ratio inverted: (kl + 1e-12) / eps_kl
raw_scale_sq_inverted(c, kl_) == RDiv(RAdd(kl_, <<1, TinyDen>>), c.eps_kl)

\* the square of raw_scale = (eps_kl / (kl + 1e-12)) ** 0.5
raw_scale_sq(c, kl_) == RDiv(c.eps_kl, RAdd(kl_, <<1, TinyDen>>))

\* the clamp without its upper bound: max(min_scale, raw_scale)
clamp_scale_no_upper(c, r) ==
    LET raw == <<Rat(0), Rat(1)>>
        lo == Q(c.min_scale)
    IN IF QLt(lo, raw, r) THEN raw ELSE lo

\* max(min_scale, min(max_scale, raw_scale)) with raw_scale = sqrt(r)
clamp_scale(c, r) ==
    LET raw == <<Rat(0), Rat(1)>>
        lo == Q(c.min_scale)
        hi == Q(c.max_scale)
        inner == IF QLt(raw, hi, r) THEN raw ELSE hi
    IN IF QLt(lo, inner, r) THEN inner ELSE lo

\* h_prev + scale * (h_t - h_prev), entry by entry
interpolate(h_t, h_prev, scale, r) ==
    [i \in 1..Len(h_t.data) |->
        QAdd(Q(Rat(h_prev.data[i])),
             QMul(scale, Q(Rat(h_t.data[i] - h_prev.data[i])), r))]

lift(h) == [i \in 1..Len(h.data) |-> Q(Rat(h.data[i]))]

Raise(exc) ==
    [raised |-> exc, shape |-> <<>>, h_out |-> <<>>, kl |-> Rat(0),
     scale |-> Q(Rat(0)), rad |-> Rat(0)]

Return(shape, h_out, kl_, scale, r) ==
    [raised |-> "no", shape |-> shape, h_out |-> h_out, kl |-> kl_,
     scale |-> scale, rad |-> r]

\* VireonQLLeash.__call__ past the first-step test: h_prev is a tensor
leash_step(self, h_t, h_prev) ==
    LET c == self.cfg
        trace_cov == estimate_cov_trace(c, h_t)
        g == gaussian_kl(c, h_t, h_prev, trace_cov)
        den == RAdd(g.kl, <<1, TinyDen>>)
        r == raw_scale_sq(c, g.kl)
        scale == clamp_scale(c, r)
    IN IF h_t.shape # h_prev.shape THEN Raise("ValueError")
       ELSE IF ndim(h_t) # 2 THEN Raise("ValueError")
       ELSE IF g.raised # "no" THEN Raise(g.raised)
       ELSE IF RLe(g.kl, c.eps_kl)
         THEN Return(h_t.shape, lift(h_t), g.kl, Q(Rat(1)), Rat(0))
       ELSE IF RIsZero(den) THEN Raise("ZeroDivisionError")
       ELSE IF r[1] < 0 THEN Raise("TypeError")
       ELSE Return(h_t.shape, interpolate(h_t, h_prev, scale, r), g.kl, scale, r)

\* the first step compared against an all-zero previous batch
call_zero_prev(self, h_t, h_prev) ==
    leash_step(self, h_t,
               IF h_prev.isNone
                 THEN Tensor(h_t.shape, [i \in 1..Len(h_t.data) |-> 0])
                 ELSE h_prev)

\* VireonQLLeash.__call__
call(self, h_t, h_prev) ==
    IF h_prev.isNone
      THEN Return(h_t.shape, lift(h_t), Rat(0), Q(Rat(1)), Rat(0))
      ELSE leash_step(self, h_t, h_prev)

\* the dataclass VireonQLConfig: the fields are stored as given
VireonQLConfig(eps_kl, min_scale, max_scale, cov_reg) ==
    /\ ~cfg.made
    /\ cfg' = [made |-> TRUE, eps_kl |-> eps_kl, min_scale |-> min_scale,
               max_scale |-> max_scale, cov_reg |-> cov_reg]
    /\ last' = [op |-> "VireonQLConfig"]
    /\ UNCHANGED <<leash, qleash>>

VireonQLLeash_init ==
    /\ cfg.made
    /\ ~qleash.made
    /\ qleash' = [made |-> TRUE, cfg |-> cfg]
    /\ last' = [op |-> "VireonQLLeash"]
    /\ UNCHANGED <<leash, cfg>>

Call(h_t, h_prev) ==
    /\ qleash.made
    /\ last.op = "VireonQLLeash"
    /\ last' = [op |-> "call", h_t |-> h_t, h_prev |-> h_prev,
                result |-> call(qleash, h_t, h_prev)]
    /\ UNCHANGED <<leash, cfg, qleash>>

\* the tensors given to the leash: vectors, [batch, dim] batches and
\* rank-3 tensors
Tensors ==
    UNION {{Tensor(<<d>>, x) : x \in [1..d -> Entries]} : d \in Dims}
    \cup UNION {{Tensor(sh, x) : x \in [1..(sh[1] * sh[2]) -> Entries]} :
                  sh \in {t \in (1..MaxCells) \X Dims : t[1] * t[2] <= MaxCells}}
    \cup {Tensor(<<1, 1, 1>>, <<x>>) : x \in Entries}

\* the previous states given with h_t: none, every tensor of h_t's shape, and
\* the all-zero tensor of every shape
Prevs(h_t) ==
    {None} \cup {t \in Tensors :
                    \/ t.shape = h_t.shape
                    \/ \A i \in 1..Len(t.data) : t.data[i] = 0}

(***************************************************************************)
(* Properties of KLLeash (checked under SpecLeash)                         *)
(***************************************************************************)
IsZoneCall == last.op = "zone"

\* the windows the specification gives a leash: positive integers
PositiveWindows == leash.yellow_days >= 1 /\ leash.red_days >= 1

\* at least w consecutive points of ks at or above thr
ConsecutiveRun(ks, thr, w) ==
    \E s \in 1..Len(ks) :
        /\ s + w - 1 <= Len(ks)
        /\ \A j \in s..(s + w - 1) : ks[j] >= thr

CountAtLeast(ks, thr) == Cardinality({i \in 1..Len(ks) : ks[i] >= thr})

Precedence(ks, yellow_thr, red_thr, yellow_days, red_days) ==
    IF \E i \in 1..Len(ks) : ks[i] >= 2 * red_thr THEN "RED"
    ELSE IF ConsecutiveRun(ks, red_thr, red_days) THEN "RED"
    ELSE IF ConsecutiveRun(ks, yellow_thr, yellow_days) THEN "YELLOW"
    ELSE "GREEN"

\* C1: for a non-empty series and a leash with positive windows, zone returns
\* RED on a spike >= 2 * red_thr, else RED on red_days consecutive points
\* >= red_thr, else YELLOW on yellow_days consecutive points >= yellow_thr,
\* else GREEN; only consecutive points count.
C1_ZonePrecedence ==
    (IsZoneCall /\ Len(last.kl_series) > 0 /\ PositiveWindows)
        => last.result = Precedence(last.kl_series, last.yellow_thr,
                                    last.red_thr, leash.yellow_days,
                                    leash.red_days)

\* a series with yellow_days points at or above yellow_thr in total, but
\* never consecutively, classified GREEN
C1_Witness ==
    /\ IsZoneCall /\ PositiveWindows
    /\ Len(last.kl_series) >= leash.yellow_days
    /\ CountAtLeast(last.kl_series, last.yellow_thr) >= leash.yellow_days
    /\ ~ConsecutiveRun(last.kl_series, last.yellow_thr, leash.yellow_days)
    /\ last.result = "GREEN"

\* C7: zone on an empty series returns GREEN for positive windows.
C7_EmptySeriesStable ==
    (IsZoneCall /\ last.kl_series = <<>> /\ PositiveWindows)
        => last.result = "GREEN"

\* C8: kl raises a shape-mismatch error whenever the two vectors differ in
\* length, and returns no value then.
C8_LengthMismatchFails ==
    (last.op = "kl" /\ Len(last.S_t) # Len(last.S0))
        => last.result.raised = "ValueError"

Severity(z) == IF z = "RED" THEN 2 ELSE IF z = "YELLOW" THEN 1 ELSE 0

\* C10: with the series and the windows fixed, a call of zone with lower (or
\* equal) thresholds never returns a less severe zone than the call made.
C10_ThresholdMonotone ==
    (IsZoneCall /\ last.result \in Zones)
        => \A y \in Thresholds, r \in Thresholds :
              (y <= last.yellow_thr /\ r <= last.red_thr)
                  => /\ zone(leash, last.kl_series, y, r) \in Zones
                     /\ Severity(zone(leash, last.kl_series, y, r))
                            >= Severity(last.result)

\* a GREEN call that lower thresholds turn into YELLOW and into RED
C10_Witness ==
    /\ IsZoneCall /\ PositiveWindows
    /\ last.result = "GREEN"
    /\ \E y \in Thresholds :
          /\ y < last.yellow_thr
          /\ zone(leash, last.kl_series, y, last.red_thr) = "YELLOW"
    /\ \E r \in Thresholds :
          /\ r < last.red_thr
          /\ zone(leash, last.kl_series, last.yellow_thr, r) = "RED"

IsKlCall == last.op = "kl"

\* v floored at eps, in units of eps: max(v[i] * EpsDen, 1)
Floored(v) ==
    [i \in 1..Len(v) |-> IF v[i] * EpsDen > 1 THEN v[i] * EpsDen ELSE 1]

\* two vectors of one length whose floored entries are in the same
\* proportions: they normalize to the same distribution
SameDistribution(a, b) ==
    /\ Len(a) = Len(b)
    /\ \A i \in 1..Len(a) :
          Floored(a)[i] * ISum(Floored(b)) = Floored(b)[i] * ISum(Floored(a))

\* every term p_i * log(ratio_i) of the returned sum is 0
AllTermsZero(res) ==
    \A i \in 1..Len(res.terms) :
        RIsZero(res.terms[i][1]) \/ np_log_sign(res.terms[i][2]) = 0

\* C11: kl(v, v) is 0 for every vector v, all-zero vectors included, and so is
\* kl of any two vectors that normalize to the same distribution after
\* flooring.
C11_SameDistributionZero ==
    (IsKlCall /\ SameDistribution(last.S_t, last.S0))
        => /\ last.result.raised = "no"
           /\ Len(last.result.terms) = Len(last.S_t)
           /\ AllTermsZero(last.result)

\* kl(v, v) for an all-zero vector v of two or more entries, returning 0
C11_Witness ==
    /\ IsKlCall
    /\ last.S_t = last.S0
    /\ Len(last.S_t) >= 2
    /\ \A i \in 1..Len(last.S_t) : last.S_t[i] = 0
    /\ last.result.raised = "no"
    /\ AllTermsZero(last.result)

(***************************************************************************)
(* Properties of VireonQLLeash (checked under SpecQL)                      *)
(***************************************************************************)
IsCall == last.op = "call"

\* the configurations the specification allows
ValidConfig(c) ==
    /\ c.eps_kl[1] > 0
    /\ c.min_scale[1] > 0 /\ RLe(c.min_scale, Rat(1))
    /\ RLe(c.min_scale, c.max_scale)
    /\ c.cov_reg[1] >= 0

ColSum(h, j) == ISum([i \in 1..h.shape[1] |-> at(h, i, j)])

\* the floored covariance trace of a [batch, dim] tensor, from column sums:
\* sum_j sum_i (B * h[i,j] - colsum_j)^2 / B^3, at least cov_reg
FlooredTrace(c, h) ==
    LET B == h.shape[1]
        T == ISum([j \in 1..h.shape[2] |->
                 ISum([i \in 1..B |->
                     (B * at(h, i, j) - ColSum(h, j))
                         * (B * at(h, i, j) - ColSum(h, j))])])
    IN RMax(Norm(T, B * B * B), c.cov_reg)

\* trace / feature_dim + cov_reg
EstimateDen(c, h) == RAdd(RDiv(FlooredTrace(c, h), Rat(h.shape[2])), c.cov_reg)

\* a previous batch of the same [batch, dim] shape, and a divisor that is not 0
CanEstimate(c, h_t, h_prev) ==
    /\ ~h_prev.isNone
    /\ h_t.shape = h_prev.shape
    /\ ndim(h_t) = 2
    /\ ~RIsZero(EstimateDen(c, h_t))

\* 0.5 * sum(delta^2) / (trace / feature_dim + cov_reg)
Estimate(c, h_t, h_prev) ==
    LET B == h_t.shape[1]
        S2 == ISum([j \in 1..h_t.shape[2] |->
                  (ColSum(h_t, j) - ColSum(h_prev, j))
                      * (ColSum(h_t, j) - ColSum(h_prev, j))])
    IN RDiv(Norm(S2, 2 * B * B), EstimateDen(c, h_t))

\* the squared Euclidean distance between two tensors of entries a + b sqrt(r)
Dist2(x, y, r) ==
    QSum([i \in 1..Len(x) |-> QMul(QSub(x[i], y[i]), QSub(x[i], y[i]), r)])

Unchanged(res, h_t) ==
    /\ res.raised = "no"
    /\ res.shape = h_t.shape
    /\ Len(res.h_out) = Len(h_t.data)
    /\ \A i \in 1..Len(h_t.data) : QEq(res.h_out[i], Q(Rat(h_t.data[i])), res.rad)

ExceedsBudget ==
    /\ IsCall
    /\ CanEstimate(qleash.cfg, last.h_t, last.h_prev)
    /\ RLt(qleash.cfg.eps_kl, Estimate(qleash.cfg, last.h_t, last.h_prev))

\* C2: with a previous batch, a divergence above the budget and a valid
\* configuration, the call returns a scale within [min_scale, max_scale], the
\* output previous + scale * (current - previous), and an output no farther
\* from the previous batch than the current batch is.
C2_DampedScaleAndDistance ==
    (ExceedsBudget /\ ValidConfig(qleash.cfg))
        => LET res == last.result
               r == res.rad
               prev == lift(last.h_prev)
               cur == lift(last.h_t)
           IN /\ res.raised = "no"
              /\ QLe(Q(qleash.cfg.min_scale), res.scale, r)
              /\ QLe(res.scale, Q(qleash.cfg.max_scale), r)
              /\ res.shape = last.h_t.shape
              /\ Len(res.h_out) = Len(cur)
              /\ \A i \in 1..Len(cur) :
                    QEq(res.h_out[i],
                        QAdd(prev[i], QMul(res.scale, QSub(cur[i], prev[i]), r)),
                        r)
              /\ QLe(Dist2(res.h_out, prev, r), Dist2(cur, prev, r), r)

\* a damped call whose scale is strictly between the two clamps and whose
\* output is strictly nearer to the previous batch
C2_Witness ==
    /\ ExceedsBudget /\ ValidConfig(qleash.cfg)
    /\ last.result.raised = "no"
    /\ QLt(Q(qleash.cfg.min_scale), last.result.scale, last.result.rad)
    /\ QLt(last.result.scale, Q(qleash.cfg.max_scale), last.result.rad)
    /\ QLt(Dist2(last.result.h_out, lift(last.h_prev), last.result.rad),
           Dist2(lift(last.h_t), lift(last.h_prev), last.result.rad),
           last.result.rad)

\* the configurations of C3: 0 < min_scale <= max_scale <= 1
ScalesInUnit(c) ==
    /\ c.min_scale[1] > 0
    /\ RLe(c.min_scale, c.max_scale)
    /\ RLe(c.max_scale, Rat(1))

\* scale^2 * kl, the divergence of the damped step
DampedKL(res) == QMul(QMul(res.scale, res.scale, res.rad), Q(res.kl), res.rad)

Damped ==
    /\ ExceedsBudget
    /\ last.result.raised = "no"

C4_FirstStepPassthrough ==
    (IsCall /\ last.h_prev.isNone /\ ndim(last.h_t) \in {1, 2})
        => /\ Unchanged(last.result, last.h_t)
           /\ last.result.kl = Rat(0)
           /\ QEq(last.result.scale, Q(Rat(1)), last.result.rad)

\* a first step on a batch that is not all zero, under an invalid configuration
C4_Witness ==
    /\ IsCall /\ last.h_prev.isNone /\ ndim(last.h_t) = 2
    /\ \E i \in 1..Len(last.h_t.data) : last.h_t.data[i] # 0
    /\ ~ValidConfig(qleash.cfg)
    /\ last.result.raised = "no"

\* C5: with a previous batch of the same shape and an estimate
\* 0.5 * sum(delta^2) / (trace / feature_dim + cov_reg) within the budget, the
\* call returns the current batch unchanged, scale 1, and reports that estimate.
C5_WithinBudgetUnchanged ==
    (/\ IsCall
     /\ CanEstimate(qleash.cfg, last.h_t, last.h_prev)
     /\ RLe(Estimate(qleash.cfg, last.h_t, last.h_prev), qleash.cfg.eps_kl))
        => /\ Unchanged(last.result, last.h_t)
           /\ QEq(last.result.scale, Q(Rat(1)), last.result.rad)
           /\ last.result.kl = Estimate(qleash.cfg, last.h_t, last.h_prev)

\* a call within the budget with a positive divergence and a covariance trace
\* above the floor
C5_Witness ==
    /\ IsCall
    /\ CanEstimate(qleash.cfg, last.h_t, last.h_prev)
    /\ RLe(Estimate(qleash.cfg, last.h_t, last.h_prev), qleash.cfg.eps_kl)
    /\ last.result.kl[1] > 0
    /\ RLt(qleash.cfg.cov_reg, FlooredTrace(qleash.cfg, last.h_t))
    /\ last.result.raised = "no"

\* C6: a constructed configuration or leash is valid, so every call runs
\* with a valid configuration.
C6_InvalidConfigRejected ==
    /\ cfg.made => ValidConfig(cfg)
    /\ qleash.made => ValidConfig(qleash.cfg)
    /\ IsCall => ValidConfig(qleash.cfg)
    /\ leash.made => PositiveWindows

\* C9: a vector is processed as a batch of size 1, a [batch, dim] batch is
\* used as given, and any other rank raises a shape error, with or without a
\* previous batch.
C9_RankNormalization ==
    IsCall =>
        /\ ndim(last.h_t) \notin {1, 2} => last.result.raised = "ValueError"
        /\ (/\ ndim(last.h_t) \in {1, 2}
            /\ (last.h_prev.isNone \/ last.h_prev.shape = last.h_t.shape))
              => last.result.raised # "ValueError"

Init ==
    /\ leash = NoLeash
    /\ cfg = NoCfg
    /\ qleash = NoQLeash
    /\ last = NoCall

\* the guards are tested before the arguments are drawn
NextLeash ==
    \/ /\ ~leash.made
       /\ \E yd \in Days, rd \in Days : KLLeash_init(yd, rd)
    \/ /\ last.op = "KLLeash"
       /\ \E ks \in SeqsUpTo(0..MaxKL, MaxLen), y \in Thresholds, r \in Thresholds :
             Zone(ks, y, r)
    \/ /\ last.op = "KLLeash"
       /\ \E a \in SeqsUpTo(Proxies, MaxVecLen),
             b \in SeqsUpTo(Proxies, MaxVecLen) : Kl(a, b)

SpecLeash == Init /\ [][NextLeash]_vars

NextQL ==
    \/ /\ ~cfg.made
       /\ \E e \in EpsKls, lo \in MinScales, hi \in MaxScales, cr \in CovRegs :
             VireonQLConfig(e, lo, hi, cr)
    \/ VireonQLLeash_init
    \/ /\ last.op = "VireonQLLeash"
       /\ \E h_t \in Tensors : \E h_prev \in Prevs(h_t) : Call(h_t, h_prev)

SpecQL == Init /\ [][NextQL]_vars

=============================================================================
